---------------------------- MODULE Spec2Model ----------------------------
(***************************************************************************)
(* A model of asana-ingest: the identifier resolver (extractTaskGid), the  *)
(* remote client (fetchAsana), the recursive ingestion engine              *)
(* (processTask), the document renderer (generateMarkdown) and the UI      *)
(* handler that drives them (handleGenerate).                              *)
(*                                                                         *)
(* JavaScript strings that the code inspects character by character (the   *)
(* URL, the task gid) are sequences of one-character strings.  Strings the *)
(* code only copies (names, notes, comment texts) are TLA+ strings.        *)
(***************************************************************************)
EXTENDS Integers, Sequences, FiniteSets, TLC

\* ------------------------------------------------------------------ bounds

\* The number of tasks the remote tracker holds below and including the root.
MaxNodes == 4

\* The number of path segments of the URLs handed to the resolver.
MaxSegs == 3

\* The number of nodes of the trees handed to the renderer.
MaxTreeNodes == 4

\* ------------------------------------------------------- character strings

DigitChars == <<"0", "1", "2", "3", "4", "5", "6", "7", "8", "9">>

Digit == {DigitChars[i] : i \in 1..10}

Alpha == {"a", "b", "c", "d", "e", "f", "g", "h", "i", "j", "k", "l", "m",
          "n", "o", "p", "q", "r", "s", "t", "u", "v", "w", "x", "y", "z"}

\* /^\d+$/.test(s)
IsNumeric(s) == Len(s) > 0 /\ \A i \in 1..Len(s) : s[i] \in Digit

RECURSIVE TrimStart(_)
TrimStart(s) == IF s # <<>> /\ Head(s) = " " THEN TrimStart(Tail(s)) ELSE s

RECURSIVE TrimEnd(_)
TrimEnd(s) ==
    IF s # <<>> /\ s[Len(s)] = " " THEN TrimEnd(SubSeq(s, 1, Len(s) - 1)) ELSE s

\* String.prototype.trim
Trim(s) == TrimEnd(TrimStart(s))

\* String.prototype.startsWith
StartsWith(s, p) == Len(s) >= Len(p) /\ SubSeq(s, 1, Len(p)) = p

\* s, from its i-th character (1-based) on, starts with p
StartsWithAt(s, i, p) ==
    i + Len(p) - 1 <= Len(s) /\ SubSeq(s, i, i + Len(p) - 1) = p

\* String.prototype.includes
Includes(s, p) == \E i \in 1..(Len(s) + 1) : StartsWithAt(s, i, p)

\* the position of the first character of s, at or after i, that is in stop;
\* Len(s) + 1 when there is none
RECURSIVE FindStop(_, _, _)
FindStop(s, i, stop) ==
    IF i > Len(s) \/ s[i] \in stop THEN i ELSE FindStop(s, i + 1, stop)

\* String.prototype.split('/'): the pieces between the slashes, empty ones kept
RECURSIVE SplitSlash(_)
SplitSlash(s) ==
    LET j == FindStop(s, 1, {"/"})
    IN  IF j > Len(s) THEN <<s>>
        ELSE <<SubSeq(s, 1, j - 1)>> \o SplitSlash(SubSeq(s, j + 1, Len(s)))

\* the longest run of digits of s that starts at position i
DigitRun(s, i) == SubSeq(s, i, FindStop(s, i, {s[k] : k \in 1..Len(s)} \ Digit) - 1)

\* the decimal digits of a natural number
RECURSIVE NatToChars(_)
NatToChars(n) ==
    IF n < 10 THEN <<DigitChars[n + 1]>>
    ELSE NatToChars(n \div 10) \o <<DigitChars[(n % 10) + 1]>>

HttpChars == <<"h", "t", "t", "p">>
HttpsChars == <<"h", "t", "t", "p", "s">>
HttpsPrefix == <<"h", "t", "t", "p", "s", ":", "/", "/">>
AsanaCom == <<"a", "s", "a", "n", "a", ".", "c", "o", "m">>
AsanaZeroPath == <<"a", "s", "a", "n", "a", ".", "c", "o", "m", "/", "0", "/">>

\* ------------------------------------------------------------- new URL(s)

\* The URL parser, for the characters the resolver's inputs are made of:
\* lower-case letters, digits, '.', '-', ':', '/', '?', '#' and the space.
\* A scheme is a letter followed by letters, digits, '+', '-' or '.', up to
\* the first ':'; without one the parse fails (there is no base URL).  After
\* http: or https: any run of slashes precedes the host; after another scheme
\* only "//" introduces a host, and the rest is an opaque path with an empty
\* host.  The host ends at '/', '?' or '#'; a ':' in it starts a port of
\* digits; a space in it, or an empty host after http(s), fails the parse.
\* The path ends at '?' or '#'; its "." segments are dropped and its ".."
\* segments drop the segment before them.
SchemeChars == Alpha \cup Digit \cup {"+", "-", "."}

ParseFailure == [ok |-> FALSE, hostname |-> <<>>, segments |-> <<>>]

RECURSIVE SkipSlashes(_, _)
SkipSlashes(s, i) == IF i <= Len(s) /\ s[i] = "/" THEN SkipSlashes(s, i + 1) ELSE i

RECURSIVE DotSegments(_, _)
DotSegments(segs, acc) ==
    IF segs = <<>> THEN acc
    ELSE IF Head(segs) = <<".">> THEN DotSegments(Tail(segs), acc)
    ELSE IF Head(segs) = <<".", ".">>
         THEN DotSegments(Tail(segs),
                          IF acc = <<>> THEN acc ELSE SubSeq(acc, 1, Len(acc) - 1))
    ELSE DotSegments(Tail(segs), Append(acc, Head(segs)))

\* the segments of the path that starts (with its '/') at position i of s
PathSegments(s, i) ==
    LET e == FindStop(s, i, {"?", "#"})
    IN  IF i >= e THEN <<>>
        ELSE DotSegments(SplitSlash(SubSeq(s, i + 1, e - 1)), <<>>)

ParseAuthority(s, i, special) ==
    LET e == FindStop(s, i, {"/", "?", "#"})
        auth == SubSeq(s, i, e - 1)
        c == FindStop(auth, 1, {":"})
        host == SubSeq(auth, 1, c - 1)
        port == SubSeq(auth, c + 1, Len(auth))
    IN  IF (special /\ host = <<>>)
           \/ (\E k \in 1..Len(host) : host[k] = " ")
           \/ (port # <<>> /\ ~IsNumeric(port))
        THEN ParseFailure
        ELSE [ok |-> TRUE, hostname |-> host, segments |-> PathSegments(s, e)]

ParseURL(s) ==
    LET c == FindStop(s, 1, {":"})
        scheme == SubSeq(s, 1, c - 1)
    IN  IF c > Len(s) \/ scheme = <<>> \/ scheme[1] \notin Alpha
           \/ (\E k \in 1..Len(scheme) : scheme[k] \notin SchemeChars)
        THEN ParseFailure
        ELSE IF scheme \in {HttpChars, HttpsChars}
             THEN ParseAuthority(s, SkipSlashes(s, c + 1), TRUE)
        ELSE IF StartsWithAt(s, c + 1, <<"/", "/">>)
             THEN ParseAuthority(s, c + 3, FALSE)
        ELSE [ok |-> TRUE, hostname |-> <<>>, segments |-> <<>>]

\* ------------------------------------------------------- extractTaskGid

NotFound == [found |-> FALSE, gid |-> <<>>]

Found(g) == [found |-> TRUE, gid |-> g]

\* urlObj.pathname.split('/').filter(Boolean)
NonEmptySegments(parsed) == SelectSeq(parsed.segments, LAMBDA seg : seg # <<>>)

\* segments.filter(seg => /^\d+$/.test(seg))
NumericSegments(segments) == SelectSeq(segments, IsNumeric)

\* /asana\.com\/0\/[^\/]+\/(\d+)/ matched at position i of s: "asana.com/0/",
\* one or more characters that are not '/', a '/', one or more digits
RegexMatchesAt(s, i) ==
    /\ StartsWithAt(s, i, AsanaZeroPath)
    /\ LET a == i + Len(AsanaZeroPath)
           b == FindStop(s, a, {"/"})
       IN  b > a /\ b + 1 <= Len(s) /\ s[b + 1] \in Digit

\* cleanUrl.match(...)[1]: the digits captured by the leftmost match
FallbackRegex(s) ==
    LET hits == {i \in 1..Len(s) : RegexMatchesAt(s, i)}
    IN  IF hits = {} THEN NotFound
        ELSE LET i == CHOOSE h \in hits : \A g \in hits : h <= g
                 b == FindStop(s, i + Len(AsanaZeroPath), {"/"})
             IN  Found(DigitRun(s, b + 1))

\* !urlObj.hostname.includes('asana.com')
HostRejected(hostname) == ~Includes(hostname, AsanaCom)

\* as PickSegment, the first numeric segment for the last
PickFirstSegment(numericSegments) == numericSegments[1]

\* numericSegments[numericSegments.length - 1]
PickSegment(numericSegments) == numericSegments[Len(numericSegments)]

\* cleanUrl.startsWith('http') ? cleanUrl : `https://${cleanUrl}`
urlStr(cleanUrl) ==
    IF StartsWith(cleanUrl, HttpChars) THEN cleanUrl ELSE HttpsPrefix \o cleanUrl

extractTaskGid(url) ==
    IF url = <<>> THEN NotFound
    ELSE LET cleanUrl == Trim(url)
         IN  IF IsNumeric(cleanUrl) THEN Found(cleanUrl)
             ELSE LET urlObj == ParseURL(urlStr(cleanUrl))
                      numericSegments == NumericSegments(NonEmptySegments(urlObj))
                  IN  IF urlObj.ok /\ HostRejected(urlObj.hostname) THEN NotFound
                      ELSE IF urlObj.ok /\ Len(numericSegments) > 0
                           THEN Found(PickSegment(numericSegments))
                      ELSE FallbackRegex(cleanUrl)

\* ------------------------------------------------------ generateMarkdown

\* The document is the sequence of its lines, in the order the code appends
\* them to md.  A line is [kind, depth, num, text]: depth is the number of
\* '#' of a heading (0 for a line that is no heading), num the number a
\* subtask heading carries (0 elsewhere), text the strings the line shows.
\* A text of several lines (notes, a comment's text) is the sequence of its
\* lines; the empty string is the empty sequence.
Line(kind, depth, num, text) ==
    [kind |-> kind, depth |-> depth, num |-> num, text |-> text]

\* formatDate: 'No Date' for null and for the empty string
formatDate(dateStr) ==
    IF dateStr = <<>> \/ dateStr = <<"">> THEN <<"No Date">>
    ELSE <<"en-US short date of", dateStr[1]>>

\* task.assignee ? task.assignee.name : 'Unassigned'
RootAssignee(task) ==
    IF task.assignee # <<>> THEN task.assignee[1].name ELSE "Unassigned"

\* x?.name || fallback, for a user that may be absent
NameOr(user, fallback) ==
    IF user # <<>> /\ user[1].name # "" THEN user[1].name ELSE fallback

\* the lines before the Comments section: title, metadata, Description
RenderHead(task) ==
    << Line("title", 1, 0, <<task.name>>),
       Line("link", 0, 0, <<"Open in Asana", task.permalink_url>>),
       Line("meta", 0, 0,
            <<"Assignee", RootAssignee(task), "Due">> \o formatDate(task.due_on)
              \o <<"Status", IF task.completed THEN "Completed" ELSE "Incomplete">>),
       Line("section", 2, 0, <<"Description">>),
       IF task.notes # <<>> THEN Line("notes", 0, 0, task.notes)
       ELSE Line("placeholder", 0, 0, <<"_No description provided._">>) >>

\* one comment of the root: subheading, body, horizontal rule
RenderRootComment(story) ==
    << Line("comment", 3, 0,
            <<IF story.created_by # <<>> THEN story.created_by[1].name ELSE "Unknown",
              "locale date of", story.created_at>>),
       Line("body", 0, 0, story.text),
       Line("rule", 0, 0, <<"---">>) >>

RECURSIVE RenderRootComments(_)
RenderRootComments(stories) ==
    IF stories = <<>> THEN <<>>
    ELSE RenderRootComment(Head(stories)) \o RenderRootComments(Tail(stories))

\* as HasComments, the section emitted for an empty list too
HasCommentsAlways(task) == Len(task.stories) >= 0

\* task.stories.length > 0
HasComments(task) == Len(task.stories) > 0

\* task.subtasks.length > 0
HasSubtasks(task) == Len(task.subtasks) > 0

RenderCommentsSection(task) ==
    IF HasComments(task)
    THEN <<Line("section", 2, 0, <<"Comments">>)>> \o RenderRootComments(task.stories)
    ELSE <<>>

\* a variant that gives every subtask heading the depth of a child of the root
headerPrefixFlat(level) == 1 + 2

\* '#'.repeat(level + 2)
headerPrefix(level) == level + 2

\* the bullets of a subtask's comments: the text's line breaks become spaces
RECURSIVE RenderBullets(_)
RenderBullets(stories) ==
    IF stories = <<>> THEN <<>>
    ELSE <<Line("bullet", 0, 0,
                <<NameOr(Head(stories).created_by, "Unknown"), "joined by spaces">>
                  \o Head(stories).text)>>
         \o RenderBullets(Tail(stories))

\* renderSubtasks(subtasks, level), from the subtask at position index on
RECURSIVE renderSubtasksFrom(_, _, _)
renderSubtasksFrom(subtasks, index, level) ==
    IF index > Len(subtasks) THEN <<>>
    ELSE LET sub == subtasks[index]
         IN  << Line("subtask", headerPrefix(level), index,
                     <<IF sub.completed THEN "done" ELSE "open", sub.name>>),
                Line("submeta", 0, 0,
                     <<"Assignee", NameOr(sub.assignee, "Unassigned"), "Due">>
                       \o formatDate(sub.due_on)) >>
             \o (IF sub.notes # <<>>
                 THEN <<Line("quote", 0, 0, sub.notes)>> ELSE <<>>)
             \o (IF Len(sub.stories) > 0
                 THEN <<Line("commentsLabel", 0, 0, <<"**Comments:**">>)>>
                      \o RenderBullets(sub.stories)
                      \o <<Line("blank", 0, 0, <<>>)>>
                 ELSE <<>>)
             \o (IF Len(sub.subtasks) > 0
                 THEN renderSubtasksFrom(sub.subtasks, 1, level + 1) ELSE <<>>)
             \o <<Line("spacer", 0, 0, <<>>)>>
             \o renderSubtasksFrom(subtasks, index + 1, level)

renderSubtasks(subtasks, level) == renderSubtasksFrom(subtasks, 1, level)

RenderSubtasksSection(task) ==
    IF HasSubtasks(task)
    THEN <<Line("section", 2, 0, <<"Subtasks">>)>> \o renderSubtasks(task.subtasks, 1)
    ELSE <<>>

generateMarkdown(task) ==
    RenderHead(task) \o RenderCommentsSection(task) \o RenderSubtasksSection(task)

\* ------------------------------------------------------------------ state

VARIABLES
    phase,        \* where handleGenerate is: "idle", "running", "done",
                  \* "failed", "rejected" (and the resolver's and renderer's
                  \* own phases in their specifications)
    url,          \* the URL field of the form
    token,        \* the token field of the form
    taskGid,      \* what extractTaskGid returned
    error,        \* setError: <<>> for null, <<message>> otherwise
    markdown,     \* setMarkdown: <<>> for null, <<document>> otherwise
    isLoading,    \* setIsLoading
    logs,         \* setLogs: the log entries, in emission order
    stack,        \* the processTask calls in progress, the root's first
    inflight,     \* the remote reads issued and not yet answered
    allocated,    \* the tracker: how many tasks it has shown to exist
    enrichedTask, \* what processTask returned to handleGenerate: <<>> or <<tree>>
    reads,        \* history: every remote read issued, in order
    answers,      \* history: the status of every answer, in order
    listed,       \* history: the subtask listing each call was answered with
    fetched,      \* history: the stories each call that returned had fetched
    outcome       \* history: how each finished processTask call ended

vars == <<phase, url, token, taskGid, error, markdown, isLoading, logs, stack,
          inflight, allocated, enrichedTask, reads, answers, listed, fetched,
          outcome>>

\* the form's fields, which handleGenerate only reads
form == <<url, token>>

\* addLog(message, type): id and timestamp (random, wall clock) are left out.
\* by and depth record who logged: "handleGenerate", or "processTask" and the
\* depth of the call.
LogEntry(type, by, depth, msg) ==
    [type |-> type, by |-> by, depth |-> depth, msg |-> msg]

\* ---------------------------------------------------------------- fetchAsana

\* the path of a request: the task and which of its resources
Path(gid, resource) == [gid |-> gid, resource |-> resource]

\* `/tasks/${taskGid}?opt_fields=${taskFields}`
TaskPath(gid) == Path(gid, "task")

\* as StoriesPath, with the path of the subtask listing pasted in
StoriesPathCopied(gid) == Path(gid, "subtasks")

\* `/tasks/${taskGid}/stories?opt_fields=...`
StoriesPath(gid) == Path(gid, "stories")

\* `/tasks/${taskGid}/subtasks?opt_fields=gid,name`
SubtasksPath(gid) == Path(gid, "subtasks")

Statuses == {200, 401, 404, 429, 500}

\* the Error fetchAsana throws for a response that is not ok
ErrorOf(status, path) ==
    IF status = 401
    THEN [message |-> "Unauthorized: Invalid Personal Access Token.",
          path |-> Path(<<>>, ""), status |-> 0]
    ELSE IF status = 404
    THEN [message |-> "Not Found: Resource does not exist or you lack access.",
          path |-> path, status |-> 0]
    ELSE IF status = 429
    THEN [message |-> "Rate Limit Exceeded: Please wait a moment and try again.",
          path |-> Path(<<>>, ""), status |-> 0]
    ELSE [message |-> "Asana API Error", path |-> Path(<<>>, ""), status |-> status]

\* as ResponseOk, with only the server's own errors taken for failures
ResponseOkLax(status) == status < 500

\* response.ok: a status in the range 200-299
ResponseOk(status) == status >= 200 /\ status <= 299

\* fetchAsana, once the response with this status and body has arrived
fetchAsana(path, status, data) ==
    IF ResponseOk(status) THEN [ok |-> TRUE, data |-> <<data>>]
    ELSE [ok |-> FALSE, error |-> ErrorOf(status, path)]

\* ------------------------------------------------------ the remote tracker

\* What the tracker may answer.  A task's fields follow from its gid (the
\* root has no notes, the other tasks have); its activity is one of a few
\* sequences of comments and system entries; its subtask listing names tasks
\* not listed before, at most MaxNodes tasks in all.
TaskResponses(gid) ==
    { [gid |-> gid, name |-> "task", assignee |-> <<>>, due_on |-> <<>>,
       notes |-> IF gid = <<"1">> THEN <<>> ELSE <<"line 1", "line 2">>,
       completed |-> FALSE, permalink_url |-> "link"] }

Story(n, subtype) ==
    [gid |-> n, created_at |-> "t", created_by |-> <<>>,
     resource_subtype |-> subtype, text |-> <<"text">>]

StoryResponses ==
    { <<Story(1, "system")>>,
      <<Story(1, "comment_added"), Story(2, "system"), Story(3, "comment_added")>> }

\* the k tasks after the first n, as a listing: gid and name only
Listing(n, k) == [i \in 1..k |-> [gid |-> NatToChars(n + i), name |-> "task"]]

SubtaskResponses == {Listing(allocated, k) : k \in 0..(MaxNodes - allocated)}

\* -------------------------------------------------------------- processTask

\* a processTask call: its arguments, its locals and where it is
Frame(gid, depth) ==
    [taskGid |-> gid, depth |-> depth, pc |-> "start", task |-> <<>>,
     stories |-> <<>>, comments |-> <<>>, subtaskList |-> <<>>,
     completedCount |-> 0, enrichedSubtasks |-> <<>>]

Top == stack[Len(stack)]

\* the stack with its top frame replaced
SetTop(f) == [stack EXCEPT ![Len(stack)] = f]

\* the stack without its top frame, and the frame below it replaced
PopTo(f) == Append(SubSeq(stack, 1, Len(stack) - 2), f)

\* '  '.repeat(depth), as the number of spaces
indent(depth) == 2 * depth

\* as LogsProgress, at every depth
LogsProgressAlways(depth) == depth >= 0

\* if (depth === 0) log(...)
LogsProgress(depth) == depth = 0

\* as IsComment, with every story taken for a comment
IsCommentAny(s) == s.resource_subtype # ""

\* s.resource_subtype === 'comment_added'
IsComment(s) == s.resource_subtype = "comment_added"

\* stories.filter(s => s.resource_subtype === 'comment_added')
FilterComments(stories) == SelectSeq(stories, IsComment)

\* as PushSubtask, the new tree put in front: unshift for push
PushSubtaskFront(enrichedSubtasks, fullSubtask) == <<fullSubtask>> \o enrichedSubtasks

\* enrichedSubtasks.push(fullSubtask)
PushSubtask(enrichedSubtasks, fullSubtask) == Append(enrichedSubtasks, fullSubtask)

\* as NextSub, the list walked from its end
NextSubReversed(subtaskList, count) == subtaskList[Len(subtaskList) - count]

\* for (const sub of subtaskList): the subtask of the turn after count turns
NextSub(subtaskList, count) == subtaskList[count + 1]

\* { ...task, stories: comments, subtasks: enrichedSubtasks }
Enriched(f) ==
    [gid |-> f.task[1].gid, name |-> f.task[1].name, notes |-> f.task[1].notes,
     assignee |-> f.task[1].assignee, due_on |-> f.task[1].due_on,
     completed |-> f.task[1].completed, permalink_url |-> f.task[1].permalink_url,
     stories |-> f.comments, subtasks |-> f.enrichedSubtasks]

\* as Catches, with the bad-credential error thrown on to the caller
CatchesAllButUnauthorized(err) ==
    err.message # "Unauthorized: Invalid Personal Access Token."

\* catch (error) around the recursive call: every error is caught
Catches(err) == TRUE

\* the entries the catch around the recursive call logs for the failed sub
CatchSubtask(parent, sub, err) ==
    <<LogEntry("error", "processTask", parent.depth,
               <<"Failed to fetch subtask", indent(parent.depth), sub.gid, err>>)>>

\* the entries handleGenerate's catch logs
CatchRoot(err) ==
    <<LogEntry("error", "handleGenerate", 0, <<"Failed", err.message>>)>>

\* The top call throws err.  A call made by processTask throws into the
\* try/catch around the recursive call, which logs and goes on with the loop;
\* the root call (and an error no catch on the way takes) throws into
\* handleGenerate's catch and finally.
Throw(err) ==
    /\ outcome' = (Top.taskGid :> "failed") @@ outcome
    /\ IF Len(stack) = 1 \/ ~Catches(err)
       THEN /\ stack' = <<>>
            /\ error' = <<err.message>>
            /\ logs' = logs \o CatchRoot(err)
            /\ isLoading' = FALSE
            /\ phase' = "failed"
       ELSE LET parent == stack[Len(stack) - 1]
                sub == parent.subtaskList[parent.completedCount]
            IN  /\ stack' = PopTo([parent EXCEPT !.pc = "loop"])
                /\ logs' = logs \o CatchSubtask(parent, sub, err)
                /\ UNCHANGED <<error, isLoading, phase>>

\* -------------------------------------------------------------------- actions

\* the URL and token fields when the button is pressed
FormUrls ==
    { <<>>,
      <<"x">>,
      <<"a", "s", "a", "n", "a", ".", "c", "o", "m", "/", "0", "/", "7", "/", "1">> }

FormTokens == {<<>>, <<" ">>, <<"p", "a", "t">>}

Init ==
    /\ phase = "idle"
    /\ url \in FormUrls
    /\ token \in FormTokens
    /\ taskGid = NotFound
    /\ error = <<>>
    /\ markdown = <<>>
    /\ isLoading = FALSE
    /\ logs = <<>>
    /\ stack = <<>>
    /\ inflight = {}
    /\ allocated = 1
    /\ enrichedTask = <<>>
    /\ reads = <<>>
    /\ answers = <<>>
    /\ listed = <<>>
    /\ fetched = <<>>
    /\ outcome = <<>>

\* handleGenerate, up to the call of processTask
HandleGenerate ==
    /\ phase = "idle"
    /\ markdown' = <<>>
    /\ taskGid' = IF Trim(token) = <<>> THEN taskGid ELSE extractTaskGid(url)
    /\ IF Trim(token) = <<>>
       THEN /\ error' = <<"Please enter your Asana Personal Access Token.">>
            /\ isLoading' = FALSE
            /\ phase' = "rejected"
            /\ logs' = <<>>
            /\ stack' = stack
       ELSE IF ~taskGid'.found
       THEN /\ error' = <<"Invalid Asana URL. Could not extract Task ID.">>
            /\ isLoading' = FALSE
            /\ phase' = "rejected"
            /\ logs' = <<>>
            /\ stack' = stack
       ELSE /\ error' = <<>>
            /\ isLoading' = TRUE
            /\ phase' = "running"
            /\ logs' = << LogEntry("info", "handleGenerate", 0,
                                   <<"Starting ingestion process...">>),
                          LogEntry("info", "handleGenerate", 0,
                                   <<"Target Task ID", taskGid'.gid>>) >>
            /\ stack' = <<Frame(taskGid'.gid, 0)>>
    /\ UNCHANGED <<form, inflight, allocated, enrichedTask, reads, answers,
                   listed, fetched, outcome>>

\* processTask, from its entry to the await of the task's details
ProcessTaskBegin ==
    /\ phase = "running"
    /\ stack # <<>>
    /\ Top.pc = "start"
    /\ logs' = IF LogsProgress(Top.depth)
               THEN Append(logs, LogEntry("info", "processTask", Top.depth,
                                          <<"Fetching main task details", Top.taskGid>>))
               ELSE logs
    /\ inflight' = inflight \cup {TaskPath(Top.taskGid)}
    /\ reads' = Append(reads, TaskPath(Top.taskGid))
    /\ stack' = SetTop([Top EXCEPT !.pc = "awaitTask"])
    /\ UNCHANGED <<form, phase, taskGid, error, markdown, isLoading, allocated,
                   enrichedTask, answers, listed, fetched, outcome>>

\* the task's details arrive; processTask goes on to await its stories
TaskFetched ==
    /\ stack # <<>>
    /\ Top.pc = "awaitTask"
    /\ TaskPath(Top.taskGid) \in inflight
    /\ \E status \in Statuses, data \in TaskResponses(Top.taskGid) :
         LET r == fetchAsana(TaskPath(Top.taskGid), status, data)
         IN  /\ answers' = Append(answers, status)
             /\ IF r.ok
                THEN /\ stack' = SetTop([Top EXCEPT !.task = r.data,
                                                    !.pc = "awaitStories"])
                     /\ inflight' = (inflight \ {TaskPath(Top.taskGid)})
                                       \cup {StoriesPath(Top.taskGid)}
                     /\ reads' = Append(reads, StoriesPath(Top.taskGid))
                     /\ UNCHANGED <<phase, error, isLoading, logs, outcome>>
                ELSE /\ Throw(r.error)
                     /\ inflight' = inflight \ {TaskPath(Top.taskGid)}
                     /\ UNCHANGED reads
    /\ UNCHANGED <<form, taskGid, markdown, allocated, enrichedTask, listed,
                   fetched>>

\* the stories arrive; processTask filters them and goes on to await the
\* subtask listing
StoriesFetched ==
    /\ stack # <<>>
    /\ Top.pc = "awaitStories"
    /\ StoriesPath(Top.taskGid) \in inflight
    /\ \E status \in Statuses, data \in StoryResponses :
         LET r == fetchAsana(StoriesPath(Top.taskGid), status, data)
         IN  /\ answers' = Append(answers, status)
             /\ IF r.ok
                THEN /\ stack' = SetTop([Top EXCEPT
                                           !.stories = r.data[1],
                                           !.comments = FilterComments(r.data[1]),
                                           !.pc = "awaitSubtasks"])
                     /\ inflight' = (inflight \ {StoriesPath(Top.taskGid)})
                                       \cup {SubtasksPath(Top.taskGid)}
                     /\ reads' = Append(reads, SubtasksPath(Top.taskGid))
                     /\ UNCHANGED <<phase, error, isLoading, logs, outcome>>
                ELSE /\ Throw(r.error)
                     /\ inflight' = inflight \ {StoriesPath(Top.taskGid)}
                     /\ UNCHANGED reads
    /\ UNCHANGED <<form, taskGid, markdown, allocated, enrichedTask, listed,
                   fetched>>

\* the subtask listing arrives; processTask reaches the head of its loop
SubtasksFetched ==
    /\ stack # <<>>
    /\ Top.pc = "awaitSubtasks"
    /\ SubtasksPath(Top.taskGid) \in inflight
    /\ inflight' = inflight \ {SubtasksPath(Top.taskGid)}
    /\ \E status \in Statuses, data \in SubtaskResponses :
         LET r == fetchAsana(SubtasksPath(Top.taskGid), status, data)
         IN  /\ answers' = Append(answers, status)
             /\ IF r.ok
                THEN /\ stack' = SetTop([Top EXCEPT !.subtaskList = r.data[1],
                                                    !.pc = "loop"])
                     /\ logs' = IF Len(r.data[1]) > 0 /\ LogsProgress(Top.depth)
                                THEN Append(logs,
                                       LogEntry("info", "processTask", Top.depth,
                                                <<"Found subtasks. Processing...",
                                                  Len(r.data[1])>>))
                                ELSE logs
                     /\ allocated' = allocated + Len(r.data[1])
                     /\ listed' = (Top.taskGid :> r.data[1]) @@ listed
                     /\ UNCHANGED <<phase, error, isLoading, outcome>>
                ELSE /\ Throw(r.error)
                     /\ UNCHANGED <<allocated, listed>>
    /\ UNCHANGED <<form, taskGid, markdown, enrichedTask, reads, fetched>>

\* one turn of the loop, up to the recursive call
ProcessSubtask ==
    /\ stack # <<>>
    /\ Top.pc = "loop"
    /\ Top.completedCount < Len(Top.subtaskList)
    /\ LET sub == NextSub(Top.subtaskList, Top.completedCount)
           count == Top.completedCount + 1
       IN  /\ logs' = IF LogsProgress(Top.depth)
                      THEN Append(logs,
                             LogEntry("info", "processTask", Top.depth,
                                      <<"Processing subtask", count,
                                        Len(Top.subtaskList), sub.name>>))
                      ELSE logs
           /\ stack' = Append(SetTop([Top EXCEPT !.completedCount = count,
                                                 !.pc = "awaitChild"]),
                              Frame(sub.gid, Top.depth + 1))
    /\ UNCHANGED <<form, phase, taskGid, error, markdown, isLoading, inflight,
                   allocated, enrichedTask, reads, answers, listed, fetched,
                   outcome>>

\* a recursive call returns its tree to the loop of its caller
ReturnToParent ==
    /\ Len(stack) > 1
    /\ Top.pc = "loop"
    /\ Top.completedCount = Len(Top.subtaskList)
    /\ LET parent == stack[Len(stack) - 1]
       IN  stack' = PopTo([parent EXCEPT
                             !.enrichedSubtasks = PushSubtask(@, Enriched(Top)),
                             !.pc = "loop"])
    /\ outcome' = (Top.taskGid :> "ok") @@ outcome
    /\ fetched' = (Top.taskGid :> Top.stories) @@ fetched
    /\ UNCHANGED <<form, phase, taskGid, error, markdown, isLoading, logs,
                   inflight, allocated, enrichedTask, reads, answers, listed>>

\* the root call returns to handleGenerate, which logs, renders and finishes
ReturnToCaller ==
    /\ Len(stack) = 1
    /\ Top.pc = "loop"
    /\ Top.completedCount = Len(Top.subtaskList)
    /\ enrichedTask' = <<Enriched(Top)>>
    /\ logs' = Append(logs, LogEntry("success", "handleGenerate", 0,
                                     <<"Processing complete. Generating Markdown...">>))
    /\ markdown' = <<generateMarkdown(Enriched(Top))>>
    /\ isLoading' = FALSE
    /\ phase' = "done"
    /\ stack' = <<>>
    /\ outcome' = (Top.taskGid :> "ok") @@ outcome
    /\ fetched' = (Top.taskGid :> Top.stories) @@ fetched
    /\ UNCHANGED <<form, taskGid, error, inflight, allocated, reads, answers,
                   listed>>

Next ==
    \/ HandleGenerate
    \/ ProcessTaskBegin
    \/ TaskFetched
    \/ StoriesFetched
    \/ SubtasksFetched
    \/ ProcessSubtask
    \/ ReturnToParent
    \/ ReturnToCaller

Spec == Init /\ [][Next]_vars

\* ------------------------------------------------ the resolver on its own

\* The inputs of the resolver: an optional leading space, an optional scheme,
\* a host, up to MaxSegs path segments, and an optional tail; and a few inputs
\* that are no URL.
InputLeads == {<<>>, <<" ">>}

InputSchemes == {<<>>, HttpsPrefix}

InputHosts ==
    { <<"a", "p", "p", ".">> \o AsanaCom,
      AsanaCom,
      <<"e", "v", "i", "l", ".", "n", "e", "t">>,
      <<"n", "o", "t">> \o AsanaCom,
      AsanaCom \o <<".", "e", "v", "i", "l", ".", "n", "e", "t">>,
      <<"m", "y", " ">> \o AsanaCom }

InputSegments == {<<"0">>, <<"1", "2">>, <<"6", "7">>, <<"f">>}

InputTails ==
    { <<>>,
      <<"/">>,
      <<"?", "9">>,
      <<"?", "u", "=">> \o AsanaZeroPath \o <<"x", "/", "5">> }

RECURSIVE InputPaths(_)
InputPaths(n) ==
    IF n = 0 THEN {<<>>}
    ELSE InputPaths(n - 1)
         \cup {p \o <<"/">> \o seg : p \in InputPaths(n - 1), seg \in InputSegments}

OtherInputs ==
    { <<>>,
      <<" ">>,
      <<"6", "7">>,
      <<" ", "6", "7", " ">>,
      <<"6", "7", "f">>,
      HttpChars \o AsanaCom \o <<"/", "0", "/", "f", "/", "4", "2">>,
      <<"h", "t", "t", "p", "x", ":", "/", "/">> \o AsanaCom \o <<"/", "0", "/", "5">> }

ResolverInputs ==
    OtherInputs
    \cup {lead \o scheme \o host \o path \o tail :
            lead \in InputLeads, scheme \in InputSchemes, host \in InputHosts,
            path \in InputPaths(MaxSegs), tail \in InputTails}

InitResolve ==
    /\ phase = "resolve"
    /\ url \in ResolverInputs
    /\ token = <<>>
    /\ taskGid = NotFound
    /\ error = <<>>
    /\ markdown = <<>>
    /\ isLoading = FALSE
    /\ logs = <<>>
    /\ stack = <<>>
    /\ inflight = {}
    /\ allocated = 1
    /\ enrichedTask = <<>>
    /\ reads = <<>>
    /\ answers = <<>>
    /\ listed = <<>>
    /\ fetched = <<>>
    /\ outcome = <<>>

\* const taskGid = extractTaskGid(url)
Resolve ==
    /\ phase = "resolve"
    /\ taskGid' = extractTaskGid(url)
    /\ phase' = "resolved"
    /\ UNCHANGED <<form, error, markdown, isLoading, logs, stack, inflight,
                   allocated, enrichedTask, reads, answers, listed, fetched,
                   outcome>>

NextResolve == Resolve

SpecResolve == InitResolve /\ [][NextResolve]_vars

\* ------------------------------------------------ the renderer on its own

\* The trees handed to the renderer: every shape of at most MaxTreeNodes
\* nodes, each node with or without notes and with or without a comment.
RenderStory ==
    [gid |-> 1, created_at |-> "t", created_by |-> <<[gid |-> "u", name |-> "Ann"]>>,
     resource_subtype |-> "comment_added", text |-> <<"text">>]

RenderNode(notes, stories, subtasks) ==
    [gid |-> <<"1">>, name |-> "task", notes |-> notes, assignee |-> <<>>,
     due_on |-> <<>>, completed |-> FALSE, permalink_url |-> "link",
     stories |-> stories, subtasks |-> subtasks]

RECURSIVE TreesOfSize(_)
RECURSIVE ForestsOfSize(_)

\* the trees of exactly n nodes, n >= 1
TreesOfSize(n) ==
    { RenderNode(notes, stories, subtasks) :
        notes \in {<<>>, <<"line 1", "line 2">>},
        stories \in {<<>>, <<RenderStory>>},
        subtasks \in ForestsOfSize(n - 1) }

\* the sequences of trees of exactly m nodes in all
ForestsOfSize(m) ==
    IF m = 0 THEN {<<>>}
    ELSE UNION { { <<t>> \o f : t \in TreesOfSize(k), f \in ForestsOfSize(m - k) }
                 : k \in 1..m }

RenderTrees == UNION {TreesOfSize(n) : n \in 1..MaxTreeNodes}

InitRender ==
    /\ phase = "render"
    /\ url = <<>>
    /\ token = <<>>
    /\ taskGid = NotFound
    /\ error = <<>>
    /\ markdown = <<>>
    /\ isLoading = FALSE
    /\ logs = <<>>
    /\ stack = <<>>
    /\ inflight = {}
    /\ allocated = 1
    /\ enrichedTask \in {<<t>> : t \in RenderTrees}
    /\ reads = <<>>
    /\ answers = <<>>
    /\ listed = <<>>
    /\ fetched = <<>>
    /\ outcome = <<>>

\* const md = generateMarkdown(enrichedTask); setMarkdown(md)
Render ==
    /\ phase = "render"
    /\ markdown' = <<generateMarkdown(enrichedTask[1])>>
    /\ phase' = "rendered"
    /\ UNCHANGED <<form, taskGid, error, isLoading, logs, stack, inflight,
                   allocated, enrichedTask, reads, answers, listed, fetched,
                   outcome>>

NextRender == Render

SpecRender == InitRender /\ [][NextRender]_vars

\* ------------------------------------------------------------- properties

\* the gid handleGenerate passed to the root call
RootGid == taskGid.gid

\* the nodes of a tree, at every depth
RECURSIVE NodesOf(_)
NodesOf(t) == {t} \cup UNION {NodesOf(t.subtasks[i]) : i \in 1..Len(t.subtasks)}

\* the gids of a sequence of tasks, in its order
GidsOf(tasks) == [i \in 1..Len(tasks) |-> tasks[i].gid]

\* the gids a call was answered with when it listed its subtasks
ListedBy(g) == IF g \in DOMAIN listed THEN GidsOf(listed[g]) ELSE <<>>

\* the call for g has ended with outcome o
Ended(g, o) == g \in DOMAIN outcome /\ outcome[g] = o

\* how many error entries of processTask name the subtask g
ErrorEntriesNaming(g) ==
    Cardinality({i \in 1..Len(logs) : /\ logs[i].by = "processTask"
                                      /\ logs[i].type = "error"
                                      /\ logs[i].msg[3] = g})

\* the positions in reads of the reads for task g
ReadIndexes(g) == {i \in 1..Len(reads) : reads[i].gid = g}

\* g and every task listed below it
RECURSIVE SubtreeGids(_)
SubtreeGids(g) ==
    {g} \cup UNION {SubtreeGids(ListedBy(g)[i]) : i \in 1..Len(ListedBy(g))}

\* the read at position i was answered with a failure
FailedRead(i) == i <= Len(answers) /\ answers[i] # 200

\* C1: every node of the returned tree, at any depth, has as children exactly
\* the listed subtasks whose recursive ingest succeeded, in listing order;
\* every listed subtask was ingested (a failing one stops neither its parent
\* nor its later siblings), and a subtask is named by exactly one error entry
\* if its ingest failed and by none if it succeeded.
C1_ChildrenAreSucceededSubtasks ==
    phase = "done" =>
      \A n \in NodesOf(enrichedTask[1]) :
        /\ n.gid \in DOMAIN listed
        /\ \A i \in 1..Len(ListedBy(n.gid)) :
             LET c == ListedBy(n.gid)[i]
             IN  /\ c \in DOMAIN outcome
                 /\ ReadIndexes(c) # {}
                 /\ ErrorEntriesNaming(c) = IF outcome[c] = "failed" THEN 1 ELSE 0
        /\ GidsOf(n.subtasks)
             = SelectSeq(ListedBy(n.gid), LAMBDA c : outcome[c] = "ok")

\* a tree is returned in which a subtask that failed is followed, in the
\* listing of its parent, by one that succeeded
C1_Witness ==
    /\ phase = "done"
    /\ \E n \in NodesOf(enrichedTask[1]) :
         \E i, j \in 1..Len(ListedBy(n.gid)) :
           /\ i < j
           /\ Ended(ListedBy(n.gid)[i], "failed")
           /\ Ended(ListedBy(n.gid)[j], "ok")

\* C2: once one of the root's own three reads has failed, handleGenerate has
\* failed: no tree and no document are set, the failing read is the last read
\* issued, nothing is in flight, and no entry of severity success is logged.
C2_RootFailureFailsIngest ==
    \A i \in 1..Len(reads) :
      (reads[i].gid = RootGid /\ FailedRead(i)) =>
        /\ phase = "failed"
        /\ enrichedTask = <<>>
        /\ markdown = <<>>
        /\ error # <<>>
        /\ stack = <<>>
        /\ i = Len(reads)
        /\ inflight = {}
        /\ \A k \in 1..Len(logs) : logs[k].type # "success"

\* the root's subtask listing, its third read, has failed
C2_Witness ==
    /\ phase = "failed"
    /\ Len(reads) = 3
    /\ FailedRead(3)
    /\ reads[3] = SubtasksPath(RootGid)

\* C3, as claimed: whenever any read, of the root or of a descendant, is
\* answered 401, no tree is returned.
C3_UnauthorizedAlwaysTerminal ==
    (\E i \in 1..Len(answers) : answers[i] = 401) =>
      (phase # "done" /\ enrichedTask = <<>>)

\* C3, amended: a 401 on one of the root's own reads fails the ingestion; a
\* 401 on a read of a descendant is caught at the parent of that descendant as
\* any other failure is: the ingestion does not fail, the descendant is named
\* by one error entry and is no node of the tree that is returned.
C3_UnauthorizedTerminalAtRootOnly ==
    \A i \in 1..Len(answers) :
      answers[i] = 401 =>
        IF reads[i].gid = RootGid
        THEN phase = "failed" /\ enrichedTask = <<>>
        ELSE /\ phase \in {"running", "done"}
             /\ error = <<>>
             /\ Ended(reads[i].gid, "failed")
             /\ ErrorEntriesNaming(reads[i].gid) = 1
             /\ phase = "done" =>
                  /\ enrichedTask # <<>>
                  /\ \A n \in NodesOf(enrichedTask[1]) : n.gid # reads[i].gid

\* a tree is returned although a read of a descendant was answered 401
C3_Witness ==
    /\ phase = "done"
    /\ enrichedTask # <<>>
    /\ \E i \in 1..Len(answers) : answers[i] = 401 /\ reads[i].gid # RootGid

\* C4: at most one read is in flight, and it is the last one issued, every
\* read before it answered; a task is read after the reads of its parent; and
\* once a subtask is read, every subtask listed before it by the same parent
\* has ended, with its whole subtree read and answered before and no call for
\* it left on the stack.
C4_OneReadInFlightDepthFirst ==
    /\ Cardinality(inflight) <= 1
    /\ Len(reads) = Len(answers) + Cardinality(inflight)
    /\ inflight # {} => reads[Len(reads)] \in inflight
    /\ \A p \in DOMAIN listed :
         LET children == ListedBy(p)
             ofParent == ReadIndexes(p)
         IN  \A k \in 1..Len(children) :
               LET ofChild == ReadIndexes(children[k])
               IN  ofChild # {} =>
                     /\ \A a \in ofParent, b \in ofChild : a < b
                     /\ \A j \in 1..(k - 1) :
                          LET subtree == SubtreeGids(children[j])
                              ofSubtree == {i \in 1..Len(reads) :
                                              reads[i].gid \in subtree}
                          IN  /\ children[j] \in DOMAIN outcome
                              /\ \A f \in 1..Len(stack) :
                                   stack[f].taskGid \notin subtree
                              /\ \A a \in ofSubtree, b \in ofChild :
                                   a < b /\ a <= Len(answers)

\* the first read of a second subtask is in flight after the first subtask
\* was ingested with a subtask of its own
C4_Witness ==
    \E p \in DOMAIN listed :
      /\ Len(ListedBy(p)) >= 2
      /\ inflight = {TaskPath(ListedBy(p)[2])}
      /\ Ended(ListedBy(p)[1], "ok")
      /\ Len(ListedBy(ListedBy(p)[1])) >= 1

\* the resources of the reads for task g, in the order they were issued
ResourcesRead(g) ==
    LET mine == SelectSeq(reads, LAMBDA r : r.gid = g)
    IN  [i \in 1..Len(mine) |-> mine[i].resource]

\* C5: a call that returned has read exactly task, stories and subtask
\* listing, once each and in this order; a run in which every read succeeded
\* has made three reads for each node of the tree; and a root that lists no
\* subtask is returned with no children after exactly 3 reads.
C5_ThreeReadsPerNode ==
    /\ \A g \in DOMAIN outcome :
         outcome[g] = "ok" => ResourcesRead(g) = <<"task", "stories", "subtasks">>
    /\ (phase = "done" /\ \A i \in 1..Len(answers) : answers[i] = 200) =>
         /\ Len(reads) = 3 * Cardinality(NodesOf(enrichedTask[1]))
         /\ {reads[i].gid : i \in 1..Len(reads)}
              = {n.gid : n \in NodesOf(enrichedTask[1])}
    /\ (phase = "done" /\ ListedBy(RootGid) = <<>>) =>
         /\ Len(reads) = 3
         /\ enrichedTask[1].subtasks = <<>>

\* every read succeeded and a tree of at least three nodes is returned
C5_Witness ==
    /\ phase = "done"
    /\ \A i \in 1..Len(answers) : answers[i] = 200
    /\ Cardinality(NodesOf(enrichedTask[1])) >= 3
    /\ Len(reads) >= 9

\* the 'Processing subtask N/M' entries, in emission order
ProcessingEntries ==
    SelectSeq(logs, LAMBDA e : e.by = "processTask" /\ e.type = "info"
                               /\ e.msg[1] = "Processing subtask")

\* C6: every info entry of processTask is logged by the call at depth 0 and is
\* the start, the subtask count or a 'Processing N/M' message; a call at depth
\* 1 or more logs only error entries, each for a subtask of its own that
\* failed; and the depth-0 call has logged 'Processing k/M' before the call
\* for its k-th subtask issues a read.
C6_OnlyDepthZeroNarrates ==
    /\ \A i \in 1..Len(logs) :
         logs[i].by = "processTask" =>
           /\ logs[i].type \in {"info", "error"}
           /\ logs[i].type = "info" =>
                /\ logs[i].depth = 0
                /\ logs[i].msg[1] \in {"Fetching main task details",
                                       "Found subtasks. Processing...",
                                       "Processing subtask"}
           /\ logs[i].depth >= 1 => logs[i].type = "error"
           /\ logs[i].type = "error" =>
                /\ logs[i].msg[1] = "Failed to fetch subtask"
                /\ Ended(logs[i].msg[3], "failed")
    /\ LET processing == ProcessingEntries
           children == ListedBy(RootGid)
       IN  /\ \A k \in 1..Len(processing) :
                /\ processing[k].msg[2] = k
                /\ processing[k].msg[3] = Len(children)
           /\ stack # <<>> => Len(processing) = stack[1].completedCount
           /\ \A k \in 1..Len(children) :
                ReadIndexes(children[k]) # {} => k <= Len(processing)
    /\ reads # <<>> =>
         \E i \in 1..Len(logs) : /\ logs[i].by = "processTask"
                                 /\ logs[i].msg[1] = "Fetching main task details"
    /\ ListedBy(RootGid) # <<>> =>
         \E i \in 1..Len(logs) : /\ logs[i].by = "processTask"
                                 /\ logs[i].msg[1] = "Found subtasks. Processing..."

\* a tree is returned after a call at depth 1 has logged the failure of a
\* subtask of its own
C6_Witness ==
    /\ phase = "done"
    /\ \E i \in 1..Len(logs) : logs[i].by = "processTask" /\ logs[i].depth >= 1

\* C7: the comments of every node of the returned tree are the stories its
\* call fetched whose subtype is comment_added, in the order they were
\* fetched, and no entry of another subtype.
C7_CommentsAreFilteredStories ==
    phase = "done" =>
      \A n \in NodesOf(enrichedTask[1]) :
        /\ n.gid \in DOMAIN fetched
        /\ n.stories = SelectSeq(fetched[n.gid],
                                 LAMBDA st : st.resource_subtype = "comment_added")
        /\ \A i \in 1..Len(n.stories) :
             n.stories[i].resource_subtype = "comment_added"

\* a node below the root keeps two comments of three fetched stories
C7_Witness ==
    /\ phase = "done"
    /\ \E n \in NodesOf(enrichedTask[1]) :
         /\ n.gid # RootGid
         /\ Len(fetched[n.gid]) = 3
         /\ Len(n.stories) = 2

\* the resolver has run on an input that is not all digits
ResolvedNonNumeric == phase = "resolved" /\ ~IsNumeric(Trim(url))

\* the input as the resolver parses it
ParsedInput == ParseURL(urlStr(Trim(url)))

\* the host is the tracker's domain or a subdomain of it
BelongsToTracker(hostname) ==
    \/ hostname = AsanaCom
    \/ /\ Len(hostname) > Len(AsanaCom) + 1
       /\ SubSeq(hostname, Len(hostname) - Len(AsanaCom), Len(hostname))
            = <<".">> \o AsanaCom

\* the positions of the purely numeric segments of the parsed path
NumericPositions ==
    {k \in 1..Len(ParsedInput.segments) : IsNumeric(ParsedInput.segments[k])}

\* C8: for an input that is not all digits and parses as a URL on the
\* tracker's host, the resolver returns the last purely numeric segment of
\* the path, whatever non-numeric segments follow it; with no numeric segment
\* in the path it returns what the pattern fallback finds in the raw input.
C8_LastNumericSegment ==
    (ResolvedNonNumeric /\ ParsedInput.ok /\ BelongsToTracker(ParsedInput.hostname)) =>
      IF NumericPositions # {}
      THEN /\ taskGid.found
           /\ \E k \in NumericPositions :
                /\ taskGid.gid = ParsedInput.segments[k]
                /\ \A j \in NumericPositions : j <= k
      ELSE taskGid = FallbackRegex(Trim(url))

\* a path of two different numeric segments and a last segment that is not
\* numeric resolves to the second numeric segment
C8_Witness ==
    /\ ResolvedNonNumeric
    /\ ParsedInput.ok
    /\ BelongsToTracker(ParsedInput.hostname)
    /\ Len(ParsedInput.segments) = 3
    /\ NumericPositions = {1, 2}
    /\ ParsedInput.segments[1] # ParsedInput.segments[2]
    /\ taskGid = Found(ParsedInput.segments[2])

\* C9, as claimed: for an input that is not all digits and parses as a URL
\* whose host is neither the tracker's domain nor a subdomain of it, the
\* resolver returns NotFound.
C9_ForeignHostRejected ==
    (ResolvedNonNumeric /\ ParsedInput.ok /\ ~BelongsToTracker(ParsedInput.hostname)) =>
      taskGid = NotFound

\* the section headings of a document, in order
SectionsOf(md) ==
    LET sections == SelectSeq(md, LAMBDA line : line.kind = "section")
    IN  [i \in 1..Len(sections) |-> sections[i].text[1]]

\* C10: the document starts with the title and the two metadata lines, then
\* the Description heading and under it the notes as they are, or the
\* placeholder when there are none; its sections are Description, then Comments
\* if and only if the root has a comment, then Subtasks if and only if the root
\* has a child.
C10_SectionsOfTheDocument ==
    phase = "rendered" =>
      LET md == markdown[1]
          task == enrichedTask[1]
      IN  /\ Len(md) >= 5
          /\ md[1].kind = "title" /\ md[1].depth = 1
          /\ md[2].kind = "link"
          /\ md[3].kind = "meta"
          /\ md[4].kind = "section" /\ md[4].text = <<"Description">>
          /\ IF task.notes = <<>>
             THEN md[5].kind = "placeholder"
             ELSE md[5].kind = "notes" /\ md[5].text = task.notes
          /\ \A i \in 1..Len(md) : md[i].kind \in {"notes", "placeholder"} => i = 5
          /\ SectionsOf(md)
               = <<"Description">>
                   \o (IF Len(task.stories) >= 1 THEN <<"Comments">> ELSE <<>>)
                   \o (IF Len(task.subtasks) >= 1 THEN <<"Subtasks">> ELSE <<>>)

\* a root with no comment and no notes, and with subtasks that have comments,
\* is rendered with the placeholder and without a Comments section
C10_Witness ==
    /\ phase = "rendered"
    /\ enrichedTask[1].notes = <<>>
    /\ enrichedTask[1].stories = <<>>
    /\ Len(enrichedTask[1].subtasks) >= 1
    /\ Len(enrichedTask[1].subtasks[1].stories) >= 1
    /\ SectionsOf(markdown[1]) = <<"Description", "Subtasks">>

\* the subtasks below a task in the order the document shows them, each as its
\* path from the root: the 1-based position of every ancestor and of itself
\* within its sibling list
RECURSIVE PathsBelow(_, _, _)
PathsBelow(subtasks, index, prefix) ==
    IF index > Len(subtasks) THEN <<>>
    ELSE <<Append(prefix, index)>>
         \o PathsBelow(subtasks[index].subtasks, 1, Append(prefix, index))
         \o PathsBelow(subtasks, index + 1, prefix)

\* the subtask headings of a document, in order
SubtaskHeadings(md) == SelectSeq(md, LAMBDA line : line.kind = "subtask")

\* C11: the document has one heading per subtask, in depth-first order; the
\* heading of a subtask at nesting level L below the root (L = 1 for a child
\* of the root) has depth exactly L + 2 and carries the 1-based position of the
\* subtask within its own sibling list; so a subtask's heading is exactly one
\* deeper than its parent's.
C11_HeadingDepthAndNumber ==
    phase = "rendered" =>
      LET headings == SubtaskHeadings(markdown[1])
          paths == PathsBelow(enrichedTask[1].subtasks, 1, <<>>)
      IN  /\ Len(headings) = Len(paths)
          /\ \A k \in 1..Len(paths) :
               LET L == Len(paths[k])
               IN  /\ headings[k].depth = L + 2
                   /\ headings[k].num = paths[k][L]
          /\ \A k \in 1..(Len(paths) - 1) :
               Len(paths[k + 1]) > Len(paths[k]) =>
                 headings[k + 1].depth = headings[k].depth + 1

\* a document is rendered in which the root's second child has a child of its
\* own: a heading numbered 2 at depth 3 is followed by one numbered 1 at depth 4
C11_Witness ==
    /\ phase = "rendered"
    /\ Len(enrichedTask[1].subtasks) >= 2
    /\ Len(enrichedTask[1].subtasks[2].subtasks) >= 1
    /\ \E k \in 1..(Len(SubtaskHeadings(markdown[1])) - 1) :
         LET headings == SubtaskHeadings(markdown[1])
         IN  /\ headings[k].depth = 3 /\ headings[k].num = 2
             /\ headings[k + 1].depth = 4 /\ headings[k + 1].num = 1

=============================================================================
